---- MODULE Spec2Model ----
\* A model of deepdectoc.py: the format normaliser (UniversalConverter.to_pdf),
\* the table renderers (table_to_html and the JSON grid loop of main) and the
\* page loop of main that accumulates the document record.
\*
\* Python strings whose characters matter (cell text, file suffixes) are
\* sequences of one-character strings; None is the sentinel below.
EXTENDS Integers, Sequences, FiniteSets, TLC

\* ------------------------------------------------------------------ bounds
\* Spec: pages per document, layout items and tables per page.
MaxPages == 2
MaxItems == 1
MaxTables == 2
\* SpecPage: layout items and tables of the single page.
PageItems == 1
PageTables == 1
\* SpecTable: cells of the single table and their coordinates.
MaxCells == 2
MaxRow == 2
MaxCol == 1
\* SpecNormalize: pages of the document behind each input path.
NormPages == 1

\* ------------------------------------------------------- python primitives
\* Python's None (an absent text or bbox).
None == <<"None">>

\* enumerate(xs, start=1): the index given to the k-th element
\* (as enumerate without start=1 would number them)
Index_from_zero(k) == k - 1
Index(k) == k

Whitespace == {" ", "\n"}

RECURSIVE lstrip(_)
lstrip(s) == IF s # <<>> /\ Head(s) \in Whitespace THEN lstrip(Tail(s)) ELSE s

RECURSIVE rstrip(_)
rstrip(s) ==
    IF s # <<>> /\ s[Len(s)] \in Whitespace
    THEN rstrip(SubSeq(s, 1, Len(s) - 1))
    ELSE s

\* str.strip()
strip(s) == rstrip(lstrip(s))

\* str.replace(old, new) for one-character old and new
replace(s, old, new) == [i \in 1..Len(s) |-> IF s[i] = old THEN new ELSE s[i]]

\* str.lower() on the letters that occur in the modelled suffixes
LowerChar(c) ==
    CASE c = "P" -> "p" [] c = "D" -> "d" [] c = "F" -> "f"
      [] c = "T" -> "t" [] c = "X" -> "x" [] c = "Y" -> "y" [] c = "Z" -> "z"
      [] OTHER -> c

\* (the suffix compared without lower())
lower_identity(s) == s
lower(s) == [i \in 1..Len(s) |-> LowerChar(s[i])]

Range(s) == {s[i] : i \in 1..Len(s)}

\* sorted(keys): the keys of a dict in ascending order
RECURSIVE SortSet(_)
SortSet(S) ==
    IF S = {} THEN <<>>
    ELSE LET m == CHOOSE x \in S : \A y \in S : x <= y
         IN <<m>> \o SortSet(S \ {m})
sorted(keys) == SortSet(Range(keys))

\* A python dict: its keys in insertion order and the value of each key.
EmptyDict == [keys |-> <<>>, val |-> <<>>]

HasKey(d, k) == k \in DOMAIN d.val

\* d[k] = v
DictSet(d, k, v) ==
    [keys |-> IF HasKey(d, k) THEN d.keys ELSE Append(d.keys, k),
     val |-> [x \in DOMAIN d.val \cup {k} |-> IF x = k THEN v ELSE d.val[x]]]

\* -------------------------------------------------------------- table_to_html
\* cell.text.replace("\n", " ").strip()
HtmlText(text) == strip(replace(text, "\n", " "))

\* rows[row][col] = text, rows a defaultdict(dict)
RowsInsert(rows, cell) ==
    LET r == cell.row_number
        inner == IF HasKey(rows, r) THEN rows.val[r] ELSE EmptyDict
    IN DictSet(rows, r, DictSet(inner, cell.column_number, HtmlText(cell.text)))

\* The loop over table.cells; text None has no replace(): AttributeError.
RECURSIVE CollectRows(_, _, _)
CollectRows(cells, k, rows) ==
    IF k > Len(cells) THEN [raised |-> FALSE, rows |-> rows]
    ELSE IF cells[k].text = None THEN [raised |-> TRUE, rows |-> rows]
    ELSE CollectRows(cells, k + 1, RowsInsert(rows, cells[k]))

\* The emitted markup: the <tr> elements in order, each the text of its <td>
\* elements in order.
RenderRows(rows) ==
    LET rk == sorted(rows.keys)
    IN [i \in 1..Len(rk) |->
          LET row == rows.val[rk[i]]
              ck == sorted(row.keys)
          IN [j \in 1..Len(ck) |-> row.val[ck[j]]]]

table_to_html(table) ==
    LET got == CollectRows(table.cells, 1, EmptyDict)
    IN [raised |-> got.raised,
        html |-> IF got.raised THEN <<>> ELSE RenderRows(got.rows)]

\* ------------------------------------------------------------ JSON grid (main)
\* while len(lst) <= n: lst.append(fill)
RECURSIVE Pad(_, _, _)
Pad(lst, n, fill) ==
    IF Len(lst) <= n THEN Pad(Append(lst, fill), n, fill) ELSE lst

\* cell.text.strip() if cell.text else ""
JsonText(text) == IF text # None /\ text # <<>> THEN strip(text) ELSE <<>>

\* One iteration of the loop over table.cells (python lists are 0-based).
\* (a non-empty entry kept instead of overwritten)
GridWrite_keepfirst(grid, cell) ==
    LET r == cell.row_number + 1
        c == cell.column_number + 1
        g1 == Pad(grid, cell.row_number, <<>>)
        old == g1[r]
        row1 == Pad(old, cell.column_number, <<>>)
    IN [g1 EXCEPT ![r] =
          IF c <= Len(old) /\ old[c] # <<>> THEN old
          ELSE [row1 EXCEPT ![c] = JsonText(cell.text)]]
GridWrite(grid, cell) ==
    LET r == cell.row_number + 1
        c == cell.column_number + 1
        g1 == Pad(grid, cell.row_number, <<>>)
        row1 == Pad(g1[r], cell.column_number, <<>>)
    IN [g1 EXCEPT ![r] = [row1 EXCEPT ![c] = JsonText(cell.text)]]

RECURSIVE BuildRowsJson(_, _, _)
BuildRowsJson(cells, k, grid) ==
    IF k > Len(cells) THEN grid
    ELSE BuildRowsJson(cells, k + 1, GridWrite(grid, cells[k]))

\* any(row): some entry is a non-empty string
\* (the row itself tested instead of its entries: if row)
any_nonempty_list(row) == Len(row) > 0
any(row) == \E i \in 1..Len(row) : row[i] # <<>>

\* [row for row in rows_json if any(row)]
FilterRows(grid) == SelectSeq(grid, any)

\* x.bbox.get_export() if x.bbox else None
ExportBBox(bbox) == IF bbox # None THEN bbox ELSE None

\* x.text.strip() if x.text else ""
ItemText(text) == IF text # None /\ text # <<>> THEN strip(text) ELSE <<>>

\* ------------------------------------------------------------------- paths
\* A path string is its directory segments, the stem of its last segment and
\* the suffix of its last segment (characters, dot included).
TEMP_DIR == <<"temp_processing">>

\* Path(s): pathlib drops the "." segments of a path string.
Path(s) == [s EXCEPT !.dirs = SelectSeq(s.dirs, LAMBDA d : d # ".")]

\* str(path): the segments of the parsed path, joined.
str(p) == p

PdfSuffix == <<".", "p", "d", "f">>
OfficeSuffixes ==
    {<<".", "d", "o", "c", "x">>, <<".", "p", "p", "t", "x">>, <<".", "x", "l", "s", "x">>}
HtmlSuffix == <<".", "h", "t", "m", "l">>
ImageSuffixes ==
    {<<".", "p", "n", "g">>, <<".", "j", "p", "g">>, <<".", "j", "p", "e", "g">>}
TxtSuffix == <<".", "t", "x", "t">>

NoError == <<>>

\* One way a call of to_pdf can end: the path returned (ok) or the exception
\* raised, the external converters invoked and the files written to TEMP_DIR.
Outcome(ok, ret, err, ext_calls, files) ==
    [ok |-> ok, ret |-> ret, err |-> err, calls |-> ext_calls, files |-> files]

\* UniversalConverter.to_pdf: every way the call can end. An external
\* converter either succeeds or raises.
\* (the final else returning output_pdf instead of raising)
to_pdf_no_raise(input) ==
    LET input_path == Path(input)
        ext == lower(input_path.suffix)
        output_pdf == [dirs |-> TEMP_DIR, stem |-> input_path.stem, suffix |-> PdfSuffix]
    IN IF ext = PdfSuffix
       THEN {Outcome(TRUE, str(input_path), NoError, <<>>, {})}
       ELSE IF ext \in OfficeSuffixes
       THEN {Outcome(TRUE, str(output_pdf), NoError, <<"soffice">>, {output_pdf}),
             Outcome(FALSE, str(output_pdf), <<"CalledProcessError">>, <<"soffice">>, {})}
       ELSE IF ext = HtmlSuffix
       THEN {Outcome(TRUE, str(output_pdf), NoError, <<"playwright">>, {output_pdf}),
             Outcome(FALSE, str(output_pdf), <<"PlaywrightError">>, <<"playwright">>, {})}
       ELSE IF ext \in ImageSuffixes
       THEN {Outcome(TRUE, str(output_pdf), NoError, <<"img2pdf">>, {output_pdf}),
             Outcome(FALSE, str(output_pdf), <<"ImageOpenError">>, <<"img2pdf">>, {output_pdf})}
       ELSE IF ext = TxtSuffix
       THEN {Outcome(TRUE, str(output_pdf), NoError, <<"fpdf">>, {output_pdf}),
             Outcome(FALSE, str(output_pdf), <<"FPDFException">>, <<"fpdf">>, {})}
       ELSE {Outcome(TRUE, str(output_pdf), NoError, <<>>, {})}
to_pdf(input) ==
    LET input_path == Path(input)
        ext == lower(input_path.suffix)
        output_pdf == [dirs |-> TEMP_DIR, stem |-> input_path.stem, suffix |-> PdfSuffix]
    IN IF ext = PdfSuffix
       THEN {Outcome(TRUE, str(input_path), NoError, <<>>, {})}
       ELSE IF ext \in OfficeSuffixes
       THEN {Outcome(TRUE, str(output_pdf), NoError, <<"soffice">>, {output_pdf}),
             Outcome(FALSE, str(output_pdf), <<"CalledProcessError">>, <<"soffice">>, {})}
       ELSE IF ext = HtmlSuffix
       THEN {Outcome(TRUE, str(output_pdf), NoError, <<"playwright">>, {output_pdf}),
             Outcome(FALSE, str(output_pdf), <<"PlaywrightError">>, <<"playwright">>, {})}
       ELSE IF ext \in ImageSuffixes
       THEN {Outcome(TRUE, str(output_pdf), NoError, <<"img2pdf">>, {output_pdf}),
             Outcome(FALSE, str(output_pdf), <<"ImageOpenError">>, <<"img2pdf">>, {output_pdf})}
       ELSE IF ext = TxtSuffix
       THEN {Outcome(TRUE, str(output_pdf), NoError, <<"fpdf">>, {output_pdf}),
             Outcome(FALSE, str(output_pdf), <<"FPDFException">>, <<"fpdf">>, {})}
       ELSE {Outcome(FALSE, str(output_pdf),
                     <<"Unsupported file format: ">> \o ext, <<>>, {})}

\* ------------------------------------------------------------------- state
VARIABLES
    INPUT_FILE,       \* the configured input path
    doc,              \* what the layout engine detects in the canonical PDF
    pc,               \* position of main
    final_pdf_path,   \* main's final_pdf_path
    calls,            \* external converters and engines invoked, in order
    temp_files,       \* files written into TEMP_DIR
    output_files,     \* page numbers whose page_<n>.png is in OUTPUT_DIR
    page_idx,         \* pages of the stream consumed by the loop
    all_tables_html,  \* main's all_tables_html
    structured_data,  \* main's structured_data
    rows_json,        \* main's rows_json after the latest table
    error             \* the exception that ended the run, if any

vars ==
    <<INPUT_FILE, doc, pc, final_pdf_path, calls, temp_files, output_files,
      page_idx, all_tables_html, structured_data, rows_json, error>>

\* ----------------------------------------------------------------- the page
\* page.get_layout_items(category_names=cat) / page.get_layouts(...)
get_layout_items(page, cat) == SelectSeq(page.items, LAMBDA it : it.category = cat)

\* The three text/title/list loops: {text, bbox} per item, in item order.
ItemEntries(page, cat) ==
    LET its == get_layout_items(page, cat)
    IN [i \in 1..Len(its) |->
          [text |-> ItemText(its[i].text), bbox |-> ExportBBox(its[i].bbox)]]

\* The figure loop.
FigureEntries(page) ==
    LET figs == get_layout_items(page, "figure")
    IN [i \in 1..Len(figs) |->
          [figure_index |-> Index(i), bbox |-> ExportBBox(figs[i].bbox)]]

\* f"<h3>Page {page_num} - Table {idx}</h3>{table_html}"
WrapHtml(page_num, idx, table_html) ==
    [page |-> page_num, table |-> idx, html |-> table_html]

\* The loop over page.tables, up to the table whose rendering raises.
RECURSIVE TablesLoop(_, _, _, _)
TablesLoop(page_num, tables, k, acc) ==
    IF k > Len(tables) THEN acc
    ELSE LET table == tables[k]
             idx == Index(k)
             rendered == table_to_html(table)
             grid == BuildRowsJson(table.cells, 1, <<>>)
         IN IF rendered.raised THEN [acc EXCEPT !.raised = TRUE]
            ELSE TablesLoop(page_num, tables, k + 1,
                   [raised |-> FALSE,
                    html |-> Append(acc.html, WrapHtml(page_num, idx, rendered.html)),
                    tables |-> Append(acc.tables,
                                 [table_index |-> idx,
                                  rows |-> FilterRows(grid),
                                  bbox |-> ExportBBox(table.bbox)]),
                    rows_json |-> grid])

\* structured_data["pages"].append(page_entry)
\* (insert(0, page_entry) instead of append)
AppendPage_front(pages, page_entry) == <<page_entry>> \o pages
AppendPage(pages, page_entry) == Append(pages, page_entry)

\* ------------------------------------------------------------------ actions
\* main, step 1: to_pdf(INPUT_FILE); an exception is printed and main returns.
Convert ==
    /\ pc = "start"
    /\ \E o \in to_pdf(INPUT_FILE) :
          /\ calls' = calls \o o.calls
          /\ temp_files' = temp_files \cup o.files
          /\ final_pdf_path' = IF o.ok THEN o.ret ELSE final_pdf_path
          /\ pc' = IF o.ok THEN "analyze" ELSE "aborted"
          /\ error' = o.err
    /\ UNCHANGED <<INPUT_FILE, doc, output_files, page_idx, all_tables_html,
                   structured_data, rows_json>>

\* main, steps 2 and 3: the analyzer is created and run on the canonical PDF;
\* an engine failure is not caught.
Analyze ==
    /\ pc = "analyze"
    /\ calls' = Append(calls, "analyzer")
    /\ \E ok \in BOOLEAN :
          /\ pc' = IF ok THEN "pages" ELSE "crashed"
          /\ error' = IF ok THEN error ELSE <<"AnalysisError">>
    /\ UNCHANGED <<INPUT_FILE, doc, final_pdf_path, temp_files, output_files,
                   page_idx, all_tables_html, structured_data, rows_json>>

\* main, step 4: one iteration of the loop over the pages.
ProcessPage ==
    /\ pc = "pages"
    /\ page_idx < Len(doc)
    /\ LET page == doc[page_idx + 1]
           page_num == page.page_number
           loop == TablesLoop(page_num, page.tables, 1,
                              [raised |-> FALSE, html |-> <<>>, tables |-> <<>>,
                               rows_json |-> rows_json])
           page_entry == [page_number |-> page_num,
                          texts |-> ItemEntries(page, "text"),
                          tables |-> loop.tables,
                          titles |-> ItemEntries(page, "title"),
                          lists |-> ItemEntries(page, "list"),
                          figures |-> FigureEntries(page)]
       IN /\ output_files' = output_files \cup {page_num}
          /\ all_tables_html' = all_tables_html \o loop.html
          /\ rows_json' = loop.rows_json
          /\ IF loop.raised
             THEN /\ pc' = "crashed"
                  /\ error' = <<"AttributeError">>
                  /\ UNCHANGED <<structured_data, page_idx>>
             ELSE /\ structured_data' =
                        [pages |-> AppendPage(structured_data.pages, page_entry)]
                  /\ page_idx' = page_idx + 1
                  /\ UNCHANGED <<pc, error>>
    /\ UNCHANGED <<INPUT_FILE, doc, final_pdf_path, calls, temp_files>>

\* main, step 5: the stream is exhausted and main prints "Done!".
Finish ==
    /\ pc = "pages"
    /\ page_idx = Len(doc)
    /\ pc' = "done"
    /\ UNCHANGED <<INPUT_FILE, doc, final_pdf_path, calls, temp_files,
                   output_files, page_idx, all_tables_html, structured_data,
                   rows_json, error>>

Next == Convert \/ Analyze \/ ProcessPage \/ Finish

\* ------------------------------------------------------------------ inputs
SeqsUpTo(S, n) == UNION {[1..k -> S] : k \in 0..n}

Box == <<10, 20, 30, 40>>

Cell(r, c, text) == [row_number |-> r, column_number |-> c, text |-> text]

\* The documents of at most n pages whose page bodies come from bodies, the
\* engine numbering the pages upwards from first.
DocsOf(bodies, n, firsts) ==
    {[i \in 1..Len(b) |->
        [page_number |-> first + i - 1, items |-> b[i].items, tables |-> b[i].tables]] :
        b \in SeqsUpTo(bodies, n), first \in firsts}

\* INPUT_FILE = "input/sample.pdf"
SamplePdf == [dirs |-> <<"input">>, stem |-> "sample", suffix |-> PdfSuffix]

NoPath == [dirs |-> <<>>, stem |-> "", suffix |-> <<>>]

\* The state when main is entered.
InitWith(paths, docs) ==
    /\ INPUT_FILE \in paths
    /\ doc \in docs
    /\ pc = "start"
    /\ final_pdf_path = NoPath
    /\ calls = <<>>
    /\ temp_files = {}
    /\ output_files = {}
    /\ page_idx = 0
    /\ all_tables_html = <<>>
    /\ structured_data = [pages |-> <<>>]
    /\ rows_json = <<>>
    /\ error = NoError

\* Spec: the configured input, documents of several pages.
TableABCD ==
    [cells |-> <<Cell(0, 0, <<"A">>), Cell(0, 1, <<"B">>),
                 Cell(1, 0, <<"C">>), Cell(1, 1, <<"D">>)>>,
     bbox |-> Box]
DocItemKinds ==
    {[category |-> "text", text |-> <<"H", "i", " ">>, bbox |-> Box],
     [category |-> "figure", text |-> None, bbox |-> None]}
DocBodies ==
    [items : SeqsUpTo(DocItemKinds, MaxItems), tables : SeqsUpTo({TableABCD}, MaxTables)]
Init == InitWith({SamplePdf}, DocsOf(DocBodies, MaxPages, {0, 1}))
Spec == Init /\ [][Next]_vars

\* SpecPage: one page, every category with present and absent text and bbox.
PageItemKinds ==
    [category : {"text", "title", "list"}, text : {None, <<" ", "a", "\n">>},
     bbox : {None, Box}]
      \cup [category : {"figure"}, text : {None}, bbox : {None, Box}]
PageTableKinds ==
    [cells : {<<Cell(0, 0, <<"a">>)>>, <<Cell(0, 0, None)>>}, bbox : {None, Box}]
PageBodies ==
    [items : SeqsUpTo(PageItemKinds, PageItems),
     tables : SeqsUpTo(PageTableKinds, PageTables)]
InitPage ==
    InitWith({SamplePdf}, {d \in DocsOf(PageBodies, 1, {1}) : Len(d) = 1})
SpecPage == InitPage /\ [][Next]_vars

\* SpecTable: one page holding one table, its cells in any enumeration order.
CellTexts == {None, <<" ">>, <<" ", "a">>, <<"a", "\n", "b">>}
CellKinds ==
    [row_number : 0..MaxRow, column_number : 0..MaxCol, text : CellTexts]
TableBodies ==
    [items : {<<>>}, tables : {<<[cells |-> cs, bbox |-> Box]>> : cs \in SeqsUpTo(CellKinds, MaxCells)}]
InitTable ==
    InitWith({SamplePdf}, {d \in DocsOf(TableBodies, 1, {1}) : Len(d) = 1})
SpecTable == InitTable /\ [][Next]_vars

\* SpecNormalize: every input path, a short document behind it.
Suffixes ==
    {PdfSuffix, <<".", "P", "D", "F">>, <<".", "P", "d", "f">>, HtmlSuffix, TxtSuffix,
     <<".", "T", "X", "T">>, <<".", "x", "y", "z">>, <<".", "X", "Y", "Z">>, <<>>}
      \cup OfficeSuffixes \cup ImageSuffixes
InputPaths ==
    [dirs : {<<"input">>, <<".", "input">>, TEMP_DIR}, stem : {"sample"},
     suffix : Suffixes]
NormBodies ==
    {[items |-> <<>>, tables |-> <<>>],
     [items |-> <<[category |-> "text", text |-> <<"H", "i">>, bbox |-> Box]>>,
      tables |-> <<>>]}
InitNormalize == InitWith(InputPaths, DocsOf(NormBodies, NormPages, {1}))
SpecNormalize == InitNormalize /\ [][Next]_vars

\* ---------------------------------------------------------------- vocabulary
\* The words of the properties below, stated on the engine's detections
\* (doc) and on what main has produced.

Max(S) == CHOOSE x \in S : \A y \in S : y <= x
Min(S) == CHOOSE x \in S : \A y \in S : x <= y

\* The tables of the pages structured so far, in page and detection order.
RECURSIVE TablesUpTo(_)
TablesUpTo(n) ==
    IF n = 0 THEN <<>>
    ELSE TablesUpTo(n - 1) \o [k \in 1..Len(doc[n].tables) |-> [page |-> n, k |-> k]]

Structured == TablesUpTo(Len(structured_data.pages))

CellsOf(t) == doc[t.page].tables[t.k].cells
EntryOf(t) == structured_data.pages[t.page].tables[t.k]

ObsRows(cells) == {cells[i].row_number : i \in DOMAIN cells}
ObsCols(cells) == {cells[i].column_number : i \in DOMAIN cells}
ColsOfRow(cells, r) ==
    {cells[i].column_number : i \in {j \in DOMAIN cells : cells[j].row_number = r}}
Targets(cells) == {<<cells[i].row_number, cells[i].column_number>> : i \in DOMAIN cells}

\* The cell enumerated last among those targeting (r, c).
LastAt(cells, r, c) ==
    cells[Max({i \in DOMAIN cells :
                 cells[i].row_number = r /\ cells[i].column_number = c})]

\* The position of x among the members of S in ascending order.
Rank(x, S) == Cardinality({y \in S : y <= x})

\* The <td> of coordinate (r, c) when each observed row has one <tr> and each
\* observed column of the row one <td>, both ascending.
TdAt(html, cells, r, c) == html[Rank(r, ObsRows(cells))][Rank(c, ColsOfRow(cells, r))]

IsBlank(ch) == ch = " " \/ ch = "\n"

\* A text without its blanks: what identifies the cell a value came from.
Letters(text) == SelectSeq(text, LAMBDA ch : ~IsBlank(ch))

\* A text with every newline replaced by a space, then trimmed.
Normalised(text) ==
    LET inked == {i \in DOMAIN text : ~IsBlank(text[i])}
    IN IF inked = {} THEN <<>>
       ELSE [i \in 1..(Max(inked) - Min(inked) + 1) |->
               LET ch == text[Min(inked) + i - 1]
               IN IF ch = "\n" THEN " " ELSE ch]

\* The table whose grid rows_json holds: the latest one structured.
HasLatest == pc \in {"pages", "done"} /\ Structured # <<>>
Latest == Structured[Len(Structured)]

Categories == {"texts", "titles", "lists", "tables", "figures"}

\* The layout items of a page in the category a field of the record holds.
ItemsIn(page, field) ==
    IF field = "tables" THEN page.tables
    ELSE SelectSeq(page.items,
           LAMBDA it : it.category =
              (CASE field = "texts" -> "text" [] field = "titles" -> "title"
                 [] field = "lists" -> "list" [] field = "figures" -> "figure"))

\* ------------------------------------------------------------------- C1
\* C1: for a non-empty cell list the grid built for JSON export is
\* rectangular: max(row)+1 rows of max(col over the table)+1 entries each,
\* the empty string wherever no cell points, so that all serialized rows
\* have the length max(col)+1.
C1_GridIsRectangular ==
    (HasLatest /\ CellsOf(Latest) # <<>>) =>
        LET cells == CellsOf(Latest)
            nrows == Max(ObsRows(cells)) + 1
            ncols == Max(ObsCols(cells)) + 1
        IN /\ Len(rows_json) = nrows
           /\ \A r \in 1..nrows : Len(rows_json[r]) = ncols
           /\ \A r \in 1..nrows : \A c \in 1..ncols :
                 <<r - 1, c - 1>> \notin Targets(cells) => rows_json[r][c] = <<>>
           /\ \A i \in DOMAIN EntryOf(Latest).rows :
                 Len(EntryOf(Latest).rows[i]) = ncols

\* ------------------------------------------------------------------- C2
\* C2: the HTML of a table has one <tr> for every row index from 0 to the
\* largest observed one, rows without any cell included, in ascending row
\* order, and the cells of each row in ascending column order.
C2_TrForEveryRowIndex ==
    \A n \in DOMAIN Structured :
        LET cells == CellsOf(Structured[n])
            html == all_tables_html[n].html
        IN cells # <<>> =>
             /\ Len(html) = Max(ObsRows(cells)) + 1
             /\ \A r \in 0..Max(ObsRows(cells)) :
                   LET cols == ColsOfRow(cells, r)
                   IN /\ Len(html[r + 1]) = Cardinality(cols)
                      /\ \A c \in cols :
                            html[r + 1][Rank(c, cols)] = Normalised(LastAt(cells, r, c).text)

\* ------------------------------------------------------------------- C3
\* C3: the rows emitted for a table are the rows of the grid that hold a
\* non-empty cell, in ascending row order, every all-empty row removed; cells
\* with text in rows 0 and 2 and columns 0 and 1 give exactly 2 rows.
C3_RowsAreTheNonBlankGridRows ==
    HasLatest =>
        LET cells == CellsOf(Latest)
            rows == EntryOf(Latest).rows
            kept == {r \in DOMAIN rows_json :
                       \E c \in DOMAIN rows_json[r] : rows_json[r][c] # <<>>}
        IN /\ Len(rows) = Cardinality(kept)
           /\ \A r \in kept : rows[Rank(r, kept)] = rows_json[r]
           /\ \A r \in DOMAIN rows_json :
                 r \in kept <=>
                    \E c \in ColsOfRow(cells, r - 1) :
                        Letters(LastAt(cells, r - 1, c).text) # <<>>
           /\ ( /\ ObsRows(cells) = {0, 2}
                /\ ObsCols(cells) \subseteq {0, 1}
                /\ \A i \in DOMAIN cells : Letters(cells[i].text) # <<>> )
              => Len(rows) = 2

\* A table with cells in rows 0 and 2 only was emitted with two rows.
C3_Witness ==
    /\ pc = "done"
    /\ HasLatest
    /\ ObsRows(CellsOf(Latest)) = {0, 2}
    /\ Len(rows_json) = 3
    /\ Len(EntryOf(Latest).rows) = 2

\* ------------------------------------------------------------------- C4
\* C4: among the cells that target one coordinate the last enumerated one
\* wins in both renderings: the grid entry and the <td> of the coordinate
\* both carry its text, and the row has one <td> per observed column.
C4_LastWriteWins ==
    \A n \in DOMAIN Structured :
        LET cells == CellsOf(Structured[n])
            html == all_tables_html[n].html
        IN /\ Len(html) = Cardinality(ObsRows(cells))
           /\ \A r \in ObsRows(cells) :
                 Len(html[Rank(r, ObsRows(cells))]) = Cardinality(ColsOfRow(cells, r))
           /\ \A t \in Targets(cells) :
                 Letters(TdAt(html, cells, t[1], t[2]))
                    = Letters(LastAt(cells, t[1], t[2]).text)
           /\ (HasLatest /\ n = Len(Structured)) =>
                 \A t \in Targets(cells) :
                     Letters(rows_json[t[1] + 1][t[2] + 1])
                        = Letters(LastAt(cells, t[1], t[2]).text)

\* Two cells with different texts targeted one coordinate of a rendered table.
C4_Witness ==
    /\ pc = "done"
    /\ HasLatest
    /\ \E i, j \in DOMAIN CellsOf(Latest) :
          /\ i < j
          /\ CellsOf(Latest)[i].row_number = CellsOf(Latest)[j].row_number
          /\ CellsOf(Latest)[i].column_number = CellsOf(Latest)[j].column_number
          /\ Letters(CellsOf(Latest)[i].text) # <<>>
          /\ Letters(CellsOf(Latest)[j].text) # <<>>
          /\ Letters(CellsOf(Latest)[i].text) # Letters(CellsOf(Latest)[j].text)

\* ------------------------------------------------------------------- C9
\* C9: both renderings normalise cell text alike: the grid entry and the
\* <td> of every observed coordinate are the cell's text with newlines
\* replaced by spaces and then trimmed.
C9_SameTextInBothRenderings ==
    HasLatest =>
        LET cells == CellsOf(Latest)
            html == all_tables_html[Len(Structured)].html
        IN \A t \in Targets(cells) :
              LET text == Normalised(LastAt(cells, t[1], t[2]).text)
              IN /\ TdAt(html, cells, t[1], t[2]) = text
                 /\ rows_json[t[1] + 1][t[2] + 1] = text

\* ------------------------------------------------------------------- C5
\* Whether two suffixes are equal up to the case of their letters.
SameLetter(a, b) ==
    \/ a = b
    \/ {a, b} \in {{"P", "p"}, {"D", "d"}, {"F", "f"}, {"T", "t"},
                   {"X", "x"}, {"Y", "y"}, {"Z", "z"}}
SameIgnoringCase(s, t) ==
    Len(s) = Len(t) /\ \A i \in 1..Len(s) : SameLetter(s[i], t[i])

SupportedSuffixes ==
    {PdfSuffix, HtmlSuffix, TxtSuffix} \cup OfficeSuffixes \cup ImageSuffixes

Unsupported(path) ==
    \A s \in SupportedSuffixes : ~SameIgnoringCase(path.suffix, s)

\* C5: an input whose suffix is, case ignored, outside the supported set
\* makes normalisation fail with an error naming the suffix; in that run no
\* external converter and no layout engine is ever called and no page is
\* ever appended.
C5_UnsupportedAbortsBeforeAnyEngine ==
    Unsupported(INPUT_FILE) =>
        /\ pc \in {"start", "aborted"}
        /\ calls = <<>>
        /\ temp_files = {}
        /\ structured_data.pages = <<>>
        /\ all_tables_html = <<>>
        /\ pc = "aborted" =>
              /\ Len(error) = 1 + Len(INPUT_FILE.suffix)
              /\ error[1] = "Unsupported file format: "
              /\ SameIgnoringCase(Tail(error), INPUT_FILE.suffix)

\* A run on an upper-case unsupported suffix has been aborted.
C5_Witness ==
    /\ pc = "aborted"
    /\ INPUT_FILE.suffix = <<".", "X", "Y", "Z">>

\* ------------------------------------------------------------------- C6
\* C6: an absent text or bbox of a layout item, table or table cell never
\* makes structuring a page fail: every page is structured to completion,
\* absent text becoming the empty string and absent bbox null.
C6_AbsentFieldsNeverFail ==
    /\ pc = "crashed" => error = <<"AnalysisError">>
    /\ \A i \in DOMAIN structured_data.pages :
          LET entry == structured_data.pages[i]
          IN /\ Len(entry.tables) = Len(doc[i].tables)
             /\ \A k \in DOMAIN entry.tables :
                   doc[i].tables[k].bbox = None => entry.tables[k].bbox = None
             /\ \A f \in {"texts", "titles", "lists"} :
                   \A k \in DOMAIN entry[f] :
                       /\ entry[f][k].text # None
                       /\ ItemsIn(doc[i], f)[k].text = None => entry[f][k].text = <<>>
                       /\ ItemsIn(doc[i], f)[k].bbox = None => entry[f][k].bbox = None

\* ------------------------------------------------------------------- C7
\* C7: after a completed run over n pages the document holds n page
\* records, the i-th with the page number of the i-th page of the stream,
\* each with all five category fields, empty when the page has no such item.
C7_OneRecordPerPageInOrder ==
    pc = "done" =>
        /\ Len(structured_data.pages) = Len(doc)
        /\ \A i \in DOMAIN doc :
              LET entry == structured_data.pages[i]
              IN /\ entry.page_number = doc[i].page_number
                 /\ DOMAIN entry = Categories \cup {"page_number"}
                 /\ \A f \in Categories : Len(entry[f]) = Len(ItemsIn(doc[i], f))

\* A run over two pages, one of them without figures and tables, completed.
C7_Witness ==
    /\ pc = "done"
    /\ Len(doc) = 2
    /\ \E i \in DOMAIN doc :
          /\ ItemsIn(doc[i], "figures") = <<>>
          /\ structured_data.pages[i].figures = <<>>
          /\ structured_data.pages[i].tables = <<>>
    /\ \E i \in DOMAIN doc : structured_data.pages[i].tables # <<>>

\* ------------------------------------------------------------------- C8
IsPdf(path) == SameIgnoringCase(path.suffix, PdfSuffix)

RECURSIVE WithoutDots(_)
WithoutDots(dirs) ==
    IF dirs = <<>> THEN <<>>
    ELSE IF Head(dirs) = "." THEN WithoutDots(Tail(dirs))
    ELSE <<Head(dirs)>> \o WithoutDots(Tail(dirs))

Converters == {"soffice", "playwright", "img2pdf", "fpdf"}

\* Normalising the returned path again returns it, calling and writing nothing.
Renormalised ==
    pc \notin {"start", "aborted"} =>
        \A o \in to_pdf(final_pdf_path) :
            o.ok /\ o.ret = final_pdf_path /\ o.calls = <<>> /\ o.files = {}

\* C8 as stated: for a .pdf suffix in any letter case normalize returns
\* exactly the input path, calls no converter and writes no temporary file;
\* hence normalize(normalize(p)) = normalize(p).
C8_PdfReturnedVerbatim ==
    /\ (IsPdf(INPUT_FILE) /\ pc # "start") =>
          /\ pc # "aborted"
          /\ final_pdf_path = INPUT_FILE
          /\ \A i \in DOMAIN calls : calls[i] \notin Converters
          /\ temp_files = {}
    /\ Renormalised

\* C8 as amended: the path returned for a .pdf is the input path in
\* pathlib's normal form (the same file; the same text when the input holds
\* no "." segment); no converter is called, no temporary file written, and
\* normalising the result again returns it.
C8_PdfReturnedInNormalForm ==
    /\ (IsPdf(INPUT_FILE) /\ pc # "start") =>
          /\ pc # "aborted"
          /\ final_pdf_path.stem = INPUT_FILE.stem
          /\ final_pdf_path.suffix = INPUT_FILE.suffix
          /\ final_pdf_path.dirs = WithoutDots(INPUT_FILE.dirs)
          /\ \A i \in DOMAIN calls : calls[i] \notin Converters
          /\ temp_files = {}
    /\ Renormalised

\* An upper-case .PDF given with a "." segment has been normalised.
C8_Witness ==
    /\ pc = "analyze"
    /\ INPUT_FILE.suffix = <<".", "P", "D", "F">>
    /\ INPUT_FILE.dirs = <<".", "input">>
    /\ final_pdf_path.dirs = <<"input">>

\* ------------------------------------------------------------------ C10
\* The table entries of the page records, in page and detection order.
RECURSIVE EntriesUpTo(_)
EntriesUpTo(n) ==
    IF n = 0 THEN <<>>
    ELSE EntriesUpTo(n - 1) \o
           [k \in 1..Len(structured_data.pages[n].tables) |->
              [page |-> structured_data.pages[n].page_number,
               table |-> structured_data.pages[n].tables[k].table_index]]

\* C10: after each page the HTML accumulator holds one fragment per table
\* entry recorded so far, in page and detection order, the k-th heading
\* naming the page number and index of the k-th entry; the indices of a
\* page with n tables are 1..n in detection order.
C10_OneFragmentPerTableEntry ==
    pc \in {"pages", "done"} =>
        LET entries == EntriesUpTo(Len(structured_data.pages))
        IN /\ Len(all_tables_html) = Len(entries)
           /\ \A k \in DOMAIN entries :
                 /\ all_tables_html[k].page = entries[k].page
                 /\ all_tables_html[k].table = entries[k].table
           /\ \A i \in DOMAIN structured_data.pages :
                 /\ Len(structured_data.pages[i].tables) = Len(doc[i].tables)
                 /\ \A k \in DOMAIN structured_data.pages[i].tables :
                       structured_data.pages[i].tables[k].table_index = k

\* A page with two tables was processed after a page without tables.
C10_Witness ==
    /\ pc = "done"
    /\ Len(all_tables_html) = 2
    /\ Len(doc) = 2
    /\ doc[1].tables = <<>>
    /\ structured_data.pages[2].tables[2].table_index = 2
====
